---- MODULE Spec2Model ----
(***************************************************************************)
(* Model of cellbender/base_cli.py: the command-line dispatcher.  One       *)
(* process is modelled: its sys.argv, the packaged resources and tool      *)
(* modules it can import, and the position of main() between its           *)
(* statements.  Text is a sequence of one-character strings.               *)
(***************************************************************************)
EXTENDS Integers, Sequences, FiniteSets, TLC

\* ---------------------------------------------------------------- bounds
MaxArgs == 2        \* longest list of trailing arguments / args_list
MaxFileLen == 2     \* longest content of VERSION.txt, in characters
MaxCalls == 2       \* invocations of main() in one Python session

\* ------------------------------------------------------------- constants
TOOL_NAME_LIST == <<"remove-background">>

Range(s) == {s[i] : i \in 1..Len(s)}

SeqsUpTo(S, n) == UNION {[1..k -> S] : k \in 0..n}

\* Command-line tokens: option-like tokens start with a dash, name tokens
\* do not.  "keys" is a name that is no declared tool; "--flag" is a flag
\* of the remove-background sub-command only.
OptionTokens == {"--version", "-v", "-h", "--flag"}

NameTokens == {"remove-background", "keys"}

Tokens == OptionTokens \cup NameTokens

ArgLists == SeqsUpTo(Tokens, MaxArgs)

Chars == {"1", " ", "\n"}

\* VERSION.txt: absent, or present with some text.
VersionFiles ==
  {[exists |-> FALSE, text |-> <<>>]}
    \cup {[exists |-> TRUE, text |-> t] : t \in SeqsUpTo(Chars, MaxFileLen)}

\* What "cellbender.<tool>.cli" offers: the module may be absent, lack the
\* CLI symbol, hold an AbstractCLI subclass that leaves an abstract method
\* unimplemented, or hold a class that instantiates.
CliKinds == {"ok", "missing", "noCLI", "abstract", "noRun", "noValidate"}

ArgparserKinds == {"ok", "missing"}

\* ----------------------------------------------------------- get_version
\* str.splitlines on "\n"-terminated lines: no empty last line.
RECURSIVE splitlines(_)
\* Variant: the first line keeps its line end (keepends).
splitlines_keepends(s) ==
  IF s = <<>> THEN <<>>
  ELSE IF \E k \in 1..Len(s) : s[k] = "\n"
       THEN LET k == CHOOSE j \in 1..Len(s) :
                       s[j] = "\n" /\ \A i \in 1..(j - 1) : s[i] # "\n"
            IN  <<SubSeq(s, 1, k)>>
                  \o (IF k < Len(s) THEN <<SubSeq(s, k + 1, Len(s))>> ELSE <<>>)
       ELSE <<s>>

splitlines(s) ==
  IF s = <<>> THEN <<>>
  ELSE IF \E k \in 1..Len(s) : s[k] = "\n"
       THEN LET k == CHOOSE j \in 1..Len(s) :
                       s[j] = "\n" /\ \A i \in 1..(j - 1) : s[i] # "\n"
            IN  <<SubSeq(s, 1, k - 1)>> \o splitlines(SubSeq(s, k + 1, Len(s)))
       ELSE <<s>>

\* read(rel_path): the exception it raises, "none" when it returns.
read_exc(file) == IF file.exists THEN "none" ELSE "FileNotFoundError"

read(file) == file.text

get_version_exc(file) ==
  IF read_exc(file) # "none" THEN read_exc(file)
  ELSE IF Len(splitlines(read(file))) = 0 THEN "IndexError"
  ELSE "none"

\* Variant: the whole text of the resource instead of its first line.
get_version_whole(file) == read(file)

get_version(file) == splitlines(read(file))[1]

\* ------------------------------------------------- records and the log
None == "None"

\* The local variable args of main() before its first assignment.
NoArgs == [tool |-> "<unbound>", flag |-> FALSE, norm |-> FALSE]

\* argparse.Namespace(tool=..., flag=...); norm marks a record that
\* validate_args rewrote (defaults filled in, values normalised).
Namespace(t, f) == [tool |-> t, flag |-> f, norm |-> FALSE]

Event(op, t, a) == [op |-> op, tool |-> t, arg |-> a]

Count(lg, op) == Cardinality({i \in 1..Len(lg) : lg[i].op = op})

\* ------------------------------------------------ get_populated_argparser
NoParser == [built |-> FALSE, prog |-> "", version |-> <<>>, subcommands |-> <<>>]

\* Lines 91-94: import each tool's argparser module, in declaration order,
\* and let it add its sub-command.  acc = [exc, subcommands, log].
RECURSIVE argparser_loop(_, _, _)
\* Variant: a failing import is swallowed and the loop goes on.
argparser_loop_swallow(amods, i, acc) ==
  [exc         |-> "none",
   subcommands |-> SelectSeq(TOOL_NAME_LIST, LAMBDA t : amods[t] # "missing"),
   log         |-> acc.log \o [k \in 1..Len(TOOL_NAME_LIST) |->
                                Event("import_argparser", TOOL_NAME_LIST[k], NoArgs)]]

argparser_loop(amods, i, acc) ==
  IF i > Len(TOOL_NAME_LIST) THEN acc
  ELSE LET t  == TOOL_NAME_LIST[i]
           lg == Append(acc.log, Event("import_argparser", t, NoArgs))
       IN  IF amods[t] = "missing"
           THEN [acc EXCEPT !.exc = "ModuleNotFoundError", !.log = lg]
           ELSE argparser_loop(amods, i + 1,
                  [acc EXCEPT !.subcommands = Append(@, t), !.log = lg])

\* The whole function: [exc, parser, log].
get_populated_argparser(file, amods) ==
  LET ev == <<Event("get_version", "-", NoArgs)>>
  IN  IF get_version_exc(file) # "none"
      THEN [exc |-> get_version_exc(file), parser |-> NoParser, log |-> ev]
      ELSE LET r == argparser_loop(amods, 1,
                      [exc |-> "none", subcommands |-> <<>>, log |-> ev])
           IN  [exc    |-> r.exc,
                parser |-> IF r.exc # "none" THEN NoParser
                           ELSE [built |-> TRUE, prog |-> "cellbender",
                                 version |-> get_version(file),
                                 subcommands |-> r.subcommands],
                log    |-> r.log]

\* ------------------------------------------------ generate_cli_dictionary
EmptyDict == [k \in {} |-> 0]

SetItem(d, k, v) == [x \in DOMAIN d \cup {k} |-> IF x = k THEN v ELSE d[x]]

\* The methods an instance of the module's CLI class provides.
Caps(kind) ==
  CASE kind = "ok"         -> {"get_name", "validate_args", "run"}
    [] kind = "noRun"      -> {"get_name", "validate_args"}
    [] kind = "noValidate" -> {"get_name", "run"}
    [] OTHER               -> {}

ListValue == [kind |-> "list", tool |-> "-", caps |-> {}]

Instance(t, kind) == [kind |-> "CLI", tool |-> t, caps |-> Caps(kind)]

\* Line 58: dict(keys=TOOL_NAME_LIST) is the one-entry dictionary
\* {'keys': TOOL_NAME_LIST}.
initial_cli_dict == SetItem(EmptyDict, "keys", ListValue)

\* Lines 59-69.  acc = [exc, cli_dict, log].
RECURSIVE cli_loop(_, _, _)
cli_loop(cmods, i, acc) ==
  IF i > Len(TOOL_NAME_LIST) THEN acc
  ELSE LET t   == TOOL_NAME_LIST[i]
           lg1 == Append(acc.log, Event("import_cli", t, NoArgs))
           lg2 == Append(lg1, Event("instantiate", t, NoArgs))
       IN  CASE cmods[t] = "missing" ->
                  [acc EXCEPT !.exc = "ModuleNotFoundError", !.log = lg1]
             [] cmods[t] = "noCLI" ->
                  [acc EXCEPT !.exc = "AttributeError", !.log = lg1]
             [] cmods[t] = "abstract" ->
                  [acc EXCEPT !.exc = "TypeError", !.log = lg2]
             [] OTHER ->
                  cli_loop(cmods, i + 1,
                    [acc EXCEPT !.cli_dict = SetItem(@, t, Instance(t, cmods[t])),
                                !.log = lg2])

\* Variant: no tool is resolved when the registry is made; the mapping is
\* returned as first created.
generate_cli_dictionary_noloop(cmods) ==
  [exc |-> "none", cli_dict |-> initial_cli_dict, log |-> <<>>]

generate_cli_dictionary(cmods) ==
  LET r == cli_loop(cmods, 1,
             [exc |-> "none", cli_dict |-> initial_cli_dict, log |-> <<>>])
  IN  [exc      |-> r.exc,
       cli_dict |-> IF r.exc # "none" THEN EmptyDict ELSE r.cli_dict,
       log      |-> r.log]

\* ----------------------------------------------------- parser.parse_args
\* Outcome of parse_args: a namespace, or SystemExit after printing the
\* version, a help text or a usage error.
Outcome(kind, ns) == [kind |-> kind, ns |-> ns]

\* The remove-background sub-parser on the arguments after its name: -h
\* prints its help; "--" ends the options; anything but --flag is left
\* over.  Result: [help, flag, extras].
RECURSIVE sub_parse(_, _, _)
sub_parse(a, i, acc) ==
  IF i > Len(a) THEN acc
  ELSE CASE a[i] = "-h"     -> [acc EXCEPT !.help = TRUE]
         [] a[i] = "--"     -> [acc EXCEPT !.extras = TRUE]
         [] a[i] = "--flag" -> sub_parse(a, i + 1, [acc EXCEPT !.flag = TRUE])
         [] OTHER           -> sub_parse(a, i + 1, [acc EXCEPT !.extras = TRUE])

\* The top-level parser from argument i on; unrec: an unknown option was
\* seen before i.
RECURSIVE top_parse(_, _, _, _)
top_parse(p, a, i, unrec) ==
  IF i > Len(a)
  THEN IF unrec THEN Outcome("usage", NoArgs)
       ELSE Outcome("parsed", Namespace(None, FALSE))
  ELSE CASE a[i] \in {"--version", "-v"} -> Outcome("version", NoArgs)
         [] a[i] = "-h"                  -> Outcome("help", NoArgs)
         [] a[i] = "--"                  -> Outcome("usage", NoArgs)
         [] a[i] \in OptionTokens \ {"--version", "-v", "-h"} ->
              top_parse(p, a, i + 1, TRUE)
         [] OTHER ->
              IF a[i] \notin Range(p.subcommands)
              THEN Outcome("usage", NoArgs)
              ELSE LET s == sub_parse(a, i + 1,
                              [help |-> FALSE, flag |-> FALSE, extras |-> FALSE])
                   IN  IF s.help THEN Outcome("subhelp", NoArgs)
                       ELSE IF s.extras \/ unrec THEN Outcome("usage", NoArgs)
                       ELSE Outcome("parsed", Namespace(a[i], s.flag))

parse_args(p, a) == top_parse(p, a, 1, FALSE)

\* The help formatter on the version text: runs of whitespace become one
\* blank, the ends are stripped, one line terminator is added.
RECURSIVE lstrip(_)
lstrip(s) == IF s # <<>> /\ s[1] = " " THEN lstrip(Tail(s)) ELSE s

RECURSIVE collapse(_)
collapse(s) ==
  IF s = <<>> THEN <<>>
  ELSE IF s[1] = " "
       THEN IF lstrip(s) = <<>> THEN <<>> ELSE <<" ">> \o collapse(lstrip(s))
       ELSE <<s[1]>> \o collapse(Tail(s))

format_version(v) == collapse(lstrip(v)) \o <<"\n">>

format_help(p) == <<"usage:", p.prog>> \o p.subcommands

\* ------------------------------------------------------------- the state
VARIABLES
  sys_argv,         \* sys.argv
  versionFile,      \* the packaged VERSION.txt
  argparserModule,  \* tool name -> what cellbender.<tool>.argparser is
  cliModule,        \* tool name -> what cellbender.<tool>.cli is
  process,          \* "script": started as the cellbender command;
                    \* "python": a Python session that imports the module
  pc,               \* position of the process / of main()
  caller,           \* who called main(): "script", "helper" or "direct"
  calls,            \* invocations of main() so far
  parser,           \* local variable parser of main()
  cli_dict,         \* local variable cli_dict of main()
  args,             \* local variable args of main()
  parsed,           \* the record parse_args returned
  validateRet,      \* the record validate_args returned, Raised if it raised
  exc,              \* the exception that left main(), "none" if none
  stdout,           \* what the current invocation printed
  log,              \* calls made by the current invocation, in order
  runRet,           \* the value run returned
  exitStatus,       \* exit status of the process, -1 while it runs
  sys_modules,      \* sys.modules: the tool modules imported so far
  helperCall,       \* the call of run_cellbender_from_python, if any
  lastBuild         \* what the previous invocation of main() built

vars == <<sys_argv, versionFile, argparserModule, cliModule, process, pc, caller,
          calls, parser, cli_dict, args, parsed, validateRet, exc, stdout,
          log, runRet, exitStatus, sys_modules, helperCall, lastBuild>>

env == <<versionFile, argparserModule, cliModule, process>>

hist == <<sys_modules, helperCall, lastBuild>>

\* No call of run_cellbender_from_python yet.
NoHelperCall == [called |-> FALSE, args_list |-> <<>>, ret |-> "none"]

\* Before the first invocation of main() nothing was built.
NoBuild == [parserBuilt |-> FALSE, subcommands |-> {}, keys |-> {}]

\* Lines 65 and 93: importlib.import_module enters each module it loads in
\* sys.modules; a module that is absent is not entered.  lg holds the
\* imports made, mods what each tool's module is.
imported(lg, mods) ==
  {<<lg[i].tool, lg[i].op>> : i \in {j \in 1..Len(lg) :
      /\ lg[j].op \in {"import_argparser", "import_cli"}
      /\ mods[lg[j].tool] # "missing"}}

ToolNames == Range(TOOL_NAME_LIST)

\* sys.argv of an interactive Python session.
SessionArgv == <<"">>

Init ==
  /\ \/ /\ process = "script"
        /\ sys_argv \in {<<"cellbender">> \o a : a \in ArgLists}
     \/ /\ process = "python"
        /\ sys_argv = SessionArgv
  /\ versionFile \in VersionFiles
  /\ argparserModule \in [ToolNames -> ArgparserKinds]
  /\ cliModule \in [ToolNames -> CliKinds]
  /\ pc = "idle"
  /\ caller = "none"
  /\ calls = 0
  /\ parser = NoParser
  /\ cli_dict = EmptyDict
  /\ args = NoArgs
  /\ parsed = NoArgs
  /\ validateRet = NoArgs
  /\ exc = "none"
  /\ stdout = <<>>
  /\ log = <<>>
  /\ runRet = "none"
  /\ exitStatus = -1
  /\ sys_modules = {}
  /\ helperCall = NoHelperCall
  /\ lastBuild = NoBuild

\* A fresh frame of main(); what the frame before it built is kept for
\* comparison.
EnterMain ==
  /\ pc' = "main"
  /\ calls' = calls + 1
  /\ parser' = NoParser
  /\ cli_dict' = EmptyDict
  /\ args' = NoArgs
  /\ parsed' = NoArgs
  /\ validateRet' = NoArgs
  /\ exc' = "none"
  /\ stdout' = <<>>
  /\ log' = <<>>
  /\ runRet' = "none"
  /\ lastBuild' = [parserBuilt |-> parser.built,
                   subcommands |-> Range(parser.subcommands),
                   keys        |-> DOMAIN cli_dict]

\* Lines 132-133: the module run as a script calls main() on the process
\* arguments.
ScriptEntry ==
  /\ process = "script"
  /\ pc = "idle"
  /\ caller' = "script"
  /\ EnterMain
  /\ UNCHANGED <<sys_argv, env, exitStatus, sys_modules, helperCall>>

\* Lines 126-129, up to the call of main().  A session calls the helper
\* once.
RunCellbenderFromPython(args_list) ==
  /\ process = "python"
  /\ pc = "idle"
  /\ sys_argv = SessionArgv
  /\ calls < MaxCalls
  /\ sys_argv' = <<"remove-background">> \o args_list
  /\ caller' = "helper"
  /\ helperCall' = [called |-> TRUE, args_list |-> args_list, ret |-> "pending"]
  /\ EnterMain
  /\ UNCHANGED <<env, exitStatus, sys_modules>>

\* Line 99: the session calls main() itself, on sys.argv as it is.
CallMain ==
  /\ process = "python"
  /\ pc = "idle"
  /\ calls < MaxCalls
  /\ caller' = "direct"
  /\ EnterMain
  /\ UNCHANGED <<sys_argv, env, exitStatus, sys_modules, helperCall>>

\* An exception leaves main().
Raise(e) == pc' = "raised" /\ exc' = e

\* Variant: a tool's sub-command is added only when its argparser module is
\* first loaded, not when it is found in sys.modules.
GetPopulatedArgparser_importOnce ==
  /\ pc = "main"
  /\ LET r == get_populated_argparser(versionFile, argparserModule)
     IN  /\ log' = log \o r.log
         /\ parser' = [r.parser EXCEPT !.subcommands =
                         SelectSeq(@, LAMBDA t : <<t, "import_argparser">> \notin sys_modules)]
         /\ sys_modules' = sys_modules \cup imported(r.log, argparserModule)
         /\ IF r.exc # "none" THEN Raise(r.exc)
            ELSE pc' = "parser_built" /\ exc' = exc
  /\ UNCHANGED <<sys_argv, env, helperCall, lastBuild, caller, calls, cli_dict, args,
                 parsed, validateRet, stdout, runRet, exitStatus>>

\* Line 107.
GetPopulatedArgparser ==
  /\ pc = "main"
  /\ LET r == get_populated_argparser(versionFile, argparserModule)
     IN  /\ log' = log \o r.log
         /\ parser' = r.parser
         /\ sys_modules' = sys_modules \cup imported(r.log, argparserModule)
         /\ IF r.exc # "none" THEN Raise(r.exc)
            ELSE pc' = "parser_built" /\ exc' = exc
  /\ UNCHANGED <<sys_argv, env, helperCall, lastBuild, caller, calls, cli_dict, args, parsed, validateRet,
                 stdout, runRet, exitStatus>>

\* Variant: a failure of the registry construction is swallowed and main()
\* goes on with an empty registry.
GenerateCliDictionary_lenient ==
  /\ pc = "parser_built"
  /\ LET r == generate_cli_dictionary(cliModule)
     IN  /\ log' = log \o r.log
         /\ cli_dict' = r.cli_dict
         /\ sys_modules' = sys_modules \cup imported(r.log, cliModule)
         /\ pc' = "registry_built"
  /\ UNCHANGED <<sys_argv, env, helperCall, lastBuild, caller, calls, parser, args, parsed, validateRet,
                 exc, stdout, runRet, exitStatus>>

\* Line 108.
GenerateCliDictionary ==
  /\ pc = "parser_built"
  /\ LET r == generate_cli_dictionary(cliModule)
     IN  /\ log' = log \o r.log
         /\ cli_dict' = r.cli_dict
         /\ sys_modules' = sys_modules \cup imported(r.log, cliModule)
         /\ IF r.exc # "none" THEN Raise(r.exc)
            ELSE pc' = "registry_built" /\ exc' = exc
  /\ UNCHANGED <<sys_argv, env, helperCall, lastBuild, caller, calls, parser, args, parsed, validateRet,
                 stdout, runRet, exitStatus>>

\* Variants of the test of line 111: off by one in either direction.
has_trailing_args_gt2(argv) == Len(argv) > 2

has_trailing_args_nonempty(argv) == Len(argv) > 0

\* Line 111: len(sys.argv) > 1.
has_trailing_args(argv) == Len(argv) > 1

\* Variant: the slice sys.argv[2:].
trailing_args_from2(argv) == Tail(Tail(argv))

\* Line 112: sys.argv[1:].
trailing_args(argv) == Tail(argv)

\* Line 112: parse_args either returns the namespace or prints and raises
\* SystemExit.
ParseArgs ==
  /\ pc = "registry_built"
  /\ has_trailing_args(sys_argv)
  /\ LET o == parse_args(parser, trailing_args(sys_argv))
     IN  /\ log' = Append(log, Event("parse_args", "-", NoArgs))
         /\ CASE o.kind = "parsed" ->
                   /\ args' = o.ns /\ parsed' = o.ns
                   /\ pc' = "args_parsed" /\ exc' = exc
                   /\ stdout' = stdout
              [] o.kind = "version" ->
                   /\ stdout' = stdout \o format_version(parser.version)
                   /\ Raise("SystemExit0")
                   /\ UNCHANGED <<args, parsed>>
              [] o.kind = "help" ->
                   /\ stdout' = stdout \o format_help(parser)
                   /\ Raise("SystemExit0")
                   /\ UNCHANGED <<args, parsed>>
              [] o.kind = "subhelp" ->
                   /\ stdout' = stdout \o <<"usage:", parser.prog, "sub-command">>
                   /\ Raise("SystemExit0")
                   /\ UNCHANGED <<args, parsed>>
              [] OTHER ->
                   /\ Raise("SystemExit2")
                   /\ UNCHANGED <<args, parsed, stdout>>
  /\ UNCHANGED <<sys_argv, env, hist, caller, calls, parser, cli_dict, validateRet,
                 runRet, exitStatus>>

\* Lines 120-122.
PrintHelp ==
  /\ pc = "registry_built"
  /\ ~has_trailing_args(sys_argv)
  /\ stdout' = stdout \o format_help(parser)
  /\ log' = Append(log, Event("print_help", "-", NoArgs))
  /\ pc' = "helped"
  /\ UNCHANGED <<sys_argv, env, hist, caller, calls, parser, cli_dict, args, parsed,
                 validateRet, exc, runRet, exitStatus>>

\* cli_dict[args.tool].<method>: the exception of the lookup, "none" when
\* the method is found.
lookup_exc(d, a, method) ==
  IF a.tool \notin DOMAIN d THEN "KeyError"
  ELSE IF method \notin d[a.tool].caps THEN "AttributeError"
  ELSE "none"

\* What validateRet holds after validate_args raised.
Raised == [tool |-> "<raised>", flag |-> FALSE, norm |-> FALSE]

\* The tool field of a record validate_args may return.
ValidatedTools == ToolNames \cup {"keys", None}

\* Variant: a failure of validate_args is caught and main() goes on to run
\* with the record as parsed.
ValidateArgs_swallow ==
  /\ pc = "args_parsed"
  /\ IF lookup_exc(cli_dict, args, "validate_args") # "none"
     THEN /\ Raise(lookup_exc(cli_dict, args, "validate_args"))
          /\ UNCHANGED <<args, validateRet, log>>
     ELSE /\ log' = Append(log, Event("validate_args", cli_dict[args.tool].tool, args))
          /\ pc' = "validated" /\ exc' = exc
          /\ \/ validateRet' = Raised /\ args' = args
             \/ \E t \in ValidatedTools, n \in BOOLEAN :
                  /\ validateRet' = [args EXCEPT !.tool = t, !.norm = n]
                  /\ args' = validateRet'
  /\ UNCHANGED <<sys_argv, env, hist, caller, calls, parser, cli_dict, parsed, stdout,
                 runRet, exitStatus>>

\* Line 115: validate_args of the selected tool is opaque: it raises, or
\* returns the record or a rewritten record, which is bound to args.
ValidateArgs ==
  /\ pc = "args_parsed"
  /\ IF lookup_exc(cli_dict, args, "validate_args") # "none"
     THEN /\ Raise(lookup_exc(cli_dict, args, "validate_args"))
          /\ UNCHANGED <<args, validateRet, log>>
     ELSE /\ log' = Append(log, Event("validate_args", cli_dict[args.tool].tool, args))
          /\ \/ /\ Raise("ValidationError")
                /\ validateRet' = Raised
                /\ args' = args
             \/ \E t \in ValidatedTools, n \in BOOLEAN :
                  /\ validateRet' = [args EXCEPT !.tool = t, !.norm = n]
                  /\ args' = validateRet'
                  /\ pc' = "validated" /\ exc' = exc
  /\ UNCHANGED <<sys_argv, env, hist, caller, calls, parser, cli_dict, parsed, stdout,
                 runRet, exitStatus>>

RunValues == {None, "1"}

\* Line 118: run is opaque: it raises, or returns some value.
Run ==
  /\ pc = "validated"
  /\ IF lookup_exc(cli_dict, args, "run") # "none"
     THEN /\ Raise(lookup_exc(cli_dict, args, "run"))
          /\ UNCHANGED <<log, runRet>>
     ELSE /\ log' = Append(log, Event("run", cli_dict[args.tool].tool, args))
          /\ \/ Raise("RunError") /\ runRet' = runRet
             \/ \E v \in RunValues :
                  /\ runRet' = v
                  /\ pc' = "ran" /\ exc' = exc
  /\ UNCHANGED <<sys_argv, env, hist, caller, calls, parser, cli_dict, args, parsed,
                 validateRet, stdout, exitStatus>>

\* Line 124.
Return0 ==
  /\ pc \in {"ran", "helped"}
  /\ pc' = "returned"
  /\ UNCHANGED <<sys_argv, env, hist, caller, calls, parser, cli_dict, args, parsed,
                 validateRet, exc, stdout, log, runRet, exitStatus>>

\* The status of a process that ends with main() returning 0 or with
\* exception e.
exit_code(returned, e) ==
  IF returned THEN 0
  ELSE CASE e = "SystemExit0" -> 0
         [] e = "SystemExit2" -> 2
         [] OTHER             -> 1

\* Line 133: sys.exit(main()), or the uncaught exception ends the process.
SysExit ==
  /\ caller = "script"
  /\ pc \in {"returned", "raised"}
  /\ exitStatus' = exit_code(pc = "returned", exc)
  /\ pc' = "exited"
  /\ UNCHANGED <<sys_argv, env, hist, caller, calls, parser, cli_dict, args, parsed,
                 validateRet, exc, stdout, log, runRet>>

\* Variant: the helper puts back the sys.argv it found.
HelperReturn_restore ==
  /\ caller = "helper"
  /\ pc \in {"returned", "raised"}
  /\ pc' = "idle"
  /\ sys_argv' = SessionArgv
  /\ helperCall' = [helperCall EXCEPT !.ret = IF pc = "returned" THEN None ELSE "<raised>"]
  /\ UNCHANGED <<env, sys_modules, lastBuild, caller, calls, parser, cli_dict, args,
                 parsed, validateRet, exc, stdout, log, runRet, exitStatus>>

\* Line 129 completes: main's value is dropped, or its exception passes on
\* to the Python code that called the helper, which goes on.
HelperReturn ==
  /\ caller = "helper"
  /\ pc \in {"returned", "raised"}
  /\ pc' = "idle"
  /\ helperCall' = [helperCall EXCEPT !.ret = IF pc = "returned" THEN None ELSE "<raised>"]
  /\ UNCHANGED <<sys_argv, env, sys_modules, lastBuild, caller, calls, parser, cli_dict, args, parsed,
                 validateRet, exc, stdout, log, runRet, exitStatus>>

\* main() called by the session is back in the session, with its value or
\* its exception.
MainReturn ==
  /\ caller = "direct"
  /\ pc \in {"returned", "raised"}
  /\ pc' = "idle"
  /\ UNCHANGED <<sys_argv, env, hist, caller, calls, parser, cli_dict, args, parsed,
                 validateRet, exc, stdout, log, runRet, exitStatus>>

Next ==
  \/ ScriptEntry
  \/ \E args_list \in ArgLists : RunCellbenderFromPython(args_list)
  \/ CallMain
  \/ GetPopulatedArgparser
  \/ GenerateCliDictionary
  \/ ParseArgs
  \/ PrintHelp
  \/ ValidateArgs
  \/ Run
  \/ Return0
  \/ SysExit
  \/ HelperReturn
  \/ MainReturn

Spec == Init /\ [][Next]_vars

\* ------------------------------------------------------------ properties
\* main() has ended in the current (or, back in the caller, the last)
\* invocation.
MainEnded ==
  \/ pc \in {"returned", "raised", "exited"}
  \/ pc = "idle" /\ calls > 0

\* The status the invocation ends with.
Status == IF pc = "exited" THEN exitStatus ELSE exit_code(exc = "none", exc)

Calls(op) == Count(log, op)

ZeroArgs == Len(sys_argv) = 1

VersionFirst == Len(sys_argv) > 1 /\ sys_argv[2] \in {"--version", "-v"}

UnknownFirst == Len(sys_argv) > 1 /\ sys_argv[2] \in NameTokens \ ToolNames

NoNameToken ==
  /\ Len(sys_argv) > 1
  /\ \A i \in 2..Len(sys_argv) : sys_argv[i] \notin NameTokens

\* -h, -v or --version stands before any "--".
EarlyHelpOrVersion ==
  \E i \in 2..Len(sys_argv) :
    /\ sys_argv[i] \in {"-h", "-v", "--version"}
    /\ \A j \in 2..(i - 1) : sys_argv[j] # "--"

\* The environment lets the parser, resp. the registry, be constructed.
ParserResolvable ==
  /\ versionFile.exists
  /\ versionFile.text # <<>>
  /\ \A t \in ToolNames : argparserModule[t] = "ok"

RegistryUnresolvable ==
  \E t \in ToolNames : cliModule[t] \in {"missing", "noCLI", "abstract"}

StartupResolvable == ParserResolvable /\ ~RegistryUnresolvable

ResolutionErrors == {"ModuleNotFoundError", "AttributeError", "TypeError"}

StartupErrors == ResolutionErrors \cup {"FileNotFoundError", "IndexError"}

\* The text before the first line terminator.
FirstLine(text) ==
  LET ends == {k \in 1..Len(text) : text[k] = "\n"}
  IN  IF ends = {} THEN text
      ELSE SubSeq(text, 1, (CHOOSE k \in ends : \A m \in ends : k <= m) - 1)

NonBlank(c) == c # " "

\* out is v as the help formatter prints it.
Rendered(v, out) ==
  /\ out # <<>>
  /\ out[Len(out)] = "\n"
  /\ LET body == SubSeq(out, 1, Len(out) - 1)
     IN  /\ SelectSeq(body, NonBlank) = SelectSeq(v, NonBlank)
         /\ body # <<>> => body[1] # " " /\ body[Len(body)] # " "
         /\ \A i \in 1..(Len(body) - 1) : ~(body[i] = " " /\ body[i + 1] = " ")
         /\ (/\ v # <<>> => v[1] # " " /\ v[Len(v)] # " "
             /\ \A i \in 1..(Len(v) - 1) : ~(v[i] = " " /\ v[i + 1] = " "))
              => body = v

HelpPrinted ==
  /\ stdout # <<>>
  /\ "cellbender" \in Range(stdout)
  /\ ToolNames \subseteq Range(stdout)

\* C1: when the arguments select a declared sub-command and validate_args
\* returns, run is invoked exactly once, after validate_args, on the
\* selected tool and with the record validate_args returned, and when run
\* returns main() returns 0 whatever run returned.
C1_RunOnceWithValidatedArgs ==
  (MainEnded /\ parsed.tool \in ToolNames /\ validateRet \notin {NoArgs, Raised})
    => /\ Calls("run") = 1
       /\ \E i, j \in 1..Len(log) :
            /\ i < j
            /\ log[i].op = "validate_args"
            /\ log[j].op = "run"
            /\ log[j].arg = validateRet
            /\ log[j].tool = parsed.tool
       /\ runRet # "none" => exc = "none" /\ Status = 0

\* C2: when validate_args of the selected sub-command raises, no run is
\* invoked, main() does not return 0, and validate_args was invoked exactly
\* once: the failure leaves main() as it is.
C2_ValidationFailureIsFatal ==
  validateRet = Raised
    => /\ Calls("run") = 0
       /\ Calls("validate_args") = 1
       /\ exc = "ValidationError"
       /\ pc \in {"raised", "exited", "idle"}
       /\ Status # 0

C2_Witness ==
  /\ validateRet = Raised
  /\ parsed.tool \in ToolNames
  /\ pc = "exited"
  /\ exitStatus = 1

\* C3: when the first trailing argument is a name that is no declared tool,
\* the invocation ends with a non-zero status and neither validate_args nor
\* run is invoked at any point.
C3_UnknownSubcommandRejected ==
  UnknownFirst
    => /\ Calls("validate_args") = 0
       /\ Calls("run") = 0
       /\ pc \notin {"args_parsed", "validated", "ran", "helped", "returned"}
       /\ MainEnded => exc # "none" /\ Status # 0

C3_Witness ==
  /\ UnknownFirst
  /\ Calls("parse_args") = 1
  /\ pc = "exited"
  /\ exitStatus = 2

\* C4 as stated: with zero trailing arguments main() always ends with status
\* 0 after printing the parser help, without parse_args, validate_args or
\* run.
C4_ZeroArgsAlwaysHelp ==
  (ZeroArgs /\ MainEnded)
    => /\ exc = "none"
       /\ Status = 0
       /\ HelpPrinted
       /\ Calls("parse_args") = 0
       /\ Calls("validate_args") = 0
       /\ Calls("run") = 0

\* C4 amended: with zero trailing arguments main() never calls parse_args,
\* validate_args or run; when the parser and the registry can be
\* constructed it prints the parser help and ends with status 0, otherwise
\* it ends with the construction failure, nothing printed, status non-zero.
C4_ZeroArgsHelpAfterStartup ==
  (ZeroArgs /\ MainEnded)
    => /\ Calls("parse_args") = 0
       /\ Calls("validate_args") = 0
       /\ Calls("run") = 0
       /\ IF StartupResolvable
          THEN exc = "none" /\ Status = 0 /\ HelpPrinted /\ Calls("print_help") = 1
          ELSE exc \in StartupErrors /\ Status # 0 /\ stdout = <<>>

C4_Witness ==
  /\ ZeroArgs
  /\ pc = "exited"
  /\ exitStatus = 0
  /\ HelpPrinted

\* C5 as stated: a failure of the registry construction does not keep a
\* zero-argument invocation from printing the help, nor a --version
\* invocation from printing the version: the output is printed, status 0.
C5_RegistryFailureKeepsHelpVersion ==
  (ParserResolvable /\ RegistryUnresolvable /\ MainEnded /\ (ZeroArgs \/ VersionFirst))
    => stdout # <<>> /\ Status = 0

\* C5 amended: a failure of the registry construction blocks both: the
\* registry is built before the arguments are looked at, so a zero-argument
\* and a --version invocation end with the resolution failure, nothing
\* printed, status non-zero.
C5_RegistryFailureBlocksHelpVersion ==
  (ParserResolvable /\ RegistryUnresolvable /\ MainEnded /\ (ZeroArgs \/ VersionFirst))
    => /\ stdout = <<>>
       /\ exc \in ResolutionErrors
       /\ Status # 0
       /\ Calls("parse_args") = 0
       /\ Calls("print_help") = 0

C5_Witness ==
  /\ ParserResolvable
  /\ RegistryUnresolvable
  /\ VersionFirst
  /\ pc = "exited"
  /\ exitStatus = 1

\* C6 as stated: with --version or -v first, main() always ends with status
\* 0 and prints exactly the version string, and no lookup in the registry,
\* validate_args or run takes place.
C6_VersionAlwaysExitsZero ==
  (VersionFirst /\ MainEnded)
    => /\ exc = "SystemExit0"
       /\ Status = 0
       /\ stdout = FirstLine(versionFile.text) \o <<"\n">>
       /\ parsed = NoArgs
       /\ Calls("validate_args") = 0
       /\ Calls("run") = 0

\* C6 amended: with --version or -v first, no lookup in the registry,
\* validate_args or run takes place; when the parser and the registry can
\* be constructed main() ends with status 0 and prints the version string
\* as the help formatter renders it (blanks at its ends removed, runs of
\* blanks made one, a line terminator added; the string itself when it has
\* no such blanks), otherwise nothing is printed and the status is non-zero.
C6_VersionAfterStartup ==
  (VersionFirst /\ MainEnded)
    => /\ parsed = NoArgs
       /\ Calls("validate_args") = 0
       /\ Calls("run") = 0
       /\ IF StartupResolvable
          THEN /\ exc = "SystemExit0"
               /\ Status = 0
               /\ Rendered(FirstLine(versionFile.text), stdout)
          ELSE exc \in StartupErrors /\ Status # 0 /\ stdout = <<>>

C6_Witness ==
  /\ VersionFirst
  /\ versionFile.text = <<"1", " ">>
  /\ stdout = <<"1", "\n">>
  /\ pc = "exited"
  /\ exitStatus = 0

\* C7: the keys of the mapping generate_cli_dictionary returns are exactly
\* the declared tool names, and every value is an instantiated CLI object.
C7_RegistryKeysExact ==
  cli_dict # EmptyDict
    => /\ DOMAIN cli_dict = ToolNames
       /\ \A k \in DOMAIN cli_dict : cli_dict[k].kind = "CLI"

C9_NonConformingNeverRegistered ==
  (\E t \in ToolNames : cliModule[t] \in {"noRun", "noValidate"})
    => /\ \A k \in DOMAIN cli_dict :
            cli_dict[k].kind = "CLI"
              => {"get_name", "validate_args", "run"} \subseteq cli_dict[k].caps
       /\ pc # "registry_built"
       /\ Calls("parse_args") = 0

\* C10: the invocation run_cellbender_from_python(args_list) triggers has
\* the sub-command remove-background selected and args_list read as its
\* flags: it ends as parsing remove-background followed by args_list ends.
C10_HelperSelectsRemoveBackground ==
  (caller = "helper" /\ StartupResolvable /\ MainEnded)
    => LET o == parse_args(parser, <<"remove-background">> \o Tail(sys_argv))
       IN  /\ Calls("parse_args") = 1
           /\ o.kind = "parsed" => parsed = o.ns
           /\ o.kind = "subhelp" => exc = "SystemExit0"
           /\ o.kind = "usage" => exc = "SystemExit2"

\* C11: the tool main() takes run from is the tool whose validate_args it
\* invoked, the one registered under the sub-command selected at parse
\* time, whatever record validate_args returned.
C11_RunOnValidatingTool ==
  /\ \A i, j \in 1..Len(log) :
       (log[i].op = "validate_args" /\ log[j].op = "run")
         => log[j].tool = log[i].tool /\ log[j].tool = parsed.tool
  /\ pc = "validated"
       => /\ args.tool \in DOMAIN cli_dict
          /\ cli_dict[args.tool] = cli_dict[parsed.tool]

IsInstantiate(e) == e.op = "instantiate"

\* The tools instantiated by the current invocation, in order.
Instantiated ==
  LET inst == SelectSeq(log, IsInstantiate)
  IN  [i \in 1..Len(inst) |-> inst[i].tool]

\* Every instantiation follows the parser construction.
InstantiationAfterParser ==
  /\ Instantiated # <<>> => parser.built
  /\ \A i, j \in 1..Len(log) :
       (log[i].op = "instantiate" /\ log[j].op \in {"get_version", "import_argparser"})
         => j < i

\* C12 as stated: in every invocation of main() every declared tool is
\* instantiated exactly once, in declaration order, after the parser
\* construction and before parse_args, validate_args and run.
C12_EveryInvocationInstantiatesAll ==
  /\ InstantiationAfterParser
  /\ MainEnded => Instantiated = TOOL_NAME_LIST

\* C12 amended: in every invocation whose parser and registry construction
\* succeed every declared tool is instantiated exactly once, in declaration
\* order, after the parser construction and before parse_args, the help,
\* validate_args and run, selected or not; in an invocation whose startup
\* fails the instantiations are a prefix of the declared list.
C12_RegistryBuiltEagerly ==
  /\ InstantiationAfterParser
  /\ Len(Instantiated) <= Len(TOOL_NAME_LIST)
  /\ Instantiated = SubSeq(TOOL_NAME_LIST, 1, Len(Instantiated))
  /\ \A j \in 1..Len(log) :
       log[j].op \in {"parse_args", "print_help", "validate_args", "run"}
         => Cardinality({i \in 1..(j - 1) : log[i].op = "instantiate"})
              = Len(TOOL_NAME_LIST)
  /\ pc \in {"registry_built", "args_parsed", "validated", "ran", "helped", "returned"}
       => Instantiated = TOOL_NAME_LIST
  /\ (MainEnded /\ StartupResolvable) => Instantiated = TOOL_NAME_LIST

C12_Witness ==
  /\ ZeroArgs
  /\ Instantiated = TOOL_NAME_LIST
  /\ Calls("print_help") = 1
  /\ pc = "exited"

CountFor(op, t) ==
  Cardinality({i \in 1..Len(log) : log[i].op = op /\ log[i].tool = t})

VersionReadFails == ~versionFile.exists \/ versionFile.text = <<>>

ArgparserModuleFails == \E t \in ToolNames : argparserModule[t] = "missing"

CliModuleFails == \E t \in ToolNames : cliModule[t] = "missing"

StartupFails == VersionReadFails \/ ArgparserModuleFails \/ CliModuleFails

\* C13: when the version read, an argparser module or a cli module fails to
\* resolve, the invocation runs no parse_args, help, validate_args or run,
\* attempts the failing step exactly once and never returns 0.
C13_StartupFailureAbsorbing ==
  StartupFails =>
    /\ \A op \in {"parse_args", "print_help", "validate_args", "run"} : Calls(op) = 0
    /\ pc \notin {"registry_built", "args_parsed", "validated", "ran", "helped",
                  "returned"}
    /\ Calls("get_version") <= 1
    /\ \A t \in ToolNames :
         /\ CountFor("import_argparser", t) <= 1
         /\ CountFor("import_cli", t) <= 1
    /\ VersionReadFails => Calls("import_argparser") = 0
    /\ ~ParserResolvable => Calls("import_cli") = 0 /\ pc # "parser_built"
    /\ MainEnded =>
         /\ exc \in StartupErrors
         /\ Status # 0
         /\ Calls("get_version") = 1
         /\ (~VersionReadFails /\ ArgparserModuleFails)
              => \E t \in ToolNames :
                   /\ argparserModule[t] = "missing"
                   /\ CountFor("import_argparser", t) = 1
                   /\ log[Len(log)] = Event("import_argparser", t, NoArgs)
         /\ (ParserResolvable /\ CliModuleFails)
              => \E t \in ToolNames :
                   /\ cliModule[t] = "missing"
                   /\ CountFor("import_cli", t) = 1
                   /\ log[Len(log)] = Event("import_cli", t, NoArgs)

C13_Witness ==
  /\ pc = "exited"
  /\ Len(sys_argv) > 1
  /\ sys_argv[2] \in ToolNames
  /\ ~VersionReadFails
  /\ ArgparserModuleFails
  /\ exc = "ModuleNotFoundError"
  /\ exitStatus = 1
  /\ Calls("import_argparser") = 1

\* The parser step of the current invocation is over.
ParserStepDone == Calls("get_version") >= 1

\* C15: for a version resource with at least one line the version the
\* parser is built with is its first line, without the line end; for an
\* empty resource get_version raises IndexError, and no parser is built.
C15_FirstLineOrFailure ==
  /\ parser.built =>
       /\ parser.version = FirstLine(versionFile.text)
       /\ \A k \in 1..Len(parser.version) : parser.version[k] # "\n"
  /\ (ParserStepDone /\ versionFile.exists /\ versionFile.text # <<>>)
       => /\ exc \notin {"IndexError", "FileNotFoundError"}
          /\ (\A t \in ToolNames : argparserModule[t] = "ok") => parser.built
  /\ (versionFile.exists /\ versionFile.text = <<>>)
       => /\ ~parser.built
          /\ pc # "parser_built"
          /\ ParserStepDone
               => /\ exc = "IndexError"
                  /\ log = <<Event("get_version", "-", NoArgs)>>
                  /\ pc \in {"raised", "exited", "idle"}

C15_Witness ==
  /\ parser.built
  /\ versionFile.text = <<"1", "\n">>
  /\ parser.version = <<"1">>
  /\ pc = "parser_built"

\* The parser step, the registry step of the current invocation is over.
ParserBuildOver == pc \notin {"idle", "main"} \/ (pc = "idle" /\ calls > 0)

RegistryBuildOver == ParserBuildOver /\ pc # "parser_built"

C16_HelperLeavesArgv ==
  helperCall.called =>
    /\ sys_argv = <<"remove-background">> \o helperCall.args_list
    /\ helperCall.ret \in {"pending", None, "<raised>"}
    /\ helperCall.ret = "pending" <=> (caller = "helper" /\ pc # "idle")
    /\ (caller = "helper" /\ pc = "idle")
         => helperCall.ret = (IF exc = "none" THEN None ELSE "<raised>")
    /\ Calls("print_help") = 1 => helperCall.args_list = <<>>
    /\ Calls("parse_args") = 1 =>
         LET o == parse_args(parser, helperCall.args_list)
         IN  /\ helperCall.args_list # <<>>
             /\ o.kind = "parsed" => parsed = o.ns
             /\ o.kind \in {"version", "help", "subhelp"} => exc = "SystemExit0"
             /\ o.kind = "usage" => exc = "SystemExit2"

C16_Witness ==
  /\ helperCall.called
  /\ helperCall.ret = None
  /\ helperCall.args_list = <<"remove-background">>
  /\ caller = "direct"
  /\ pc = "args_parsed"
  /\ parsed.tool = "remove-background"

====
